---- MODULE Spec2Model ----
(***************************************************************************)
(* send-to-remarkable: the account instance (AuthDO, src/src/auth-do.ts),  *)
(* the upload orchestrator (uploadFile, src/src/upload-utils.ts) and the   *)
(* delayed job (RemarkableUploadWorkflow.run, src/src/workflow.ts).        *)
(*                                                                         *)
(* One account instance is modelled.  A call on it runs atomically from    *)
(* one network await (fetch) to the next: storage operations keep the      *)
(* input gate closed, a pending fetch does not, so other calls may be      *)
(* delivered while a call awaits a response.  The constructor runs under   *)
(* blockConcurrencyWhile and is therefore one atomic step.                 *)
(*                                                                         *)
(* Time is the clock Math.floor(Date.now() / 1000), saturating at MaxTime: *)
(* the upstream issues tokens with exp in 0..MaxTime only, so exp > now    *)
(* has the same value for the saturated and the real clock.                *)
(***************************************************************************)
EXTENDS Naturals, FiniteSets, Sequences, TLC

\* ------------------------------------------------------------------ bounds
MaxTime == 2

\* Device ids generated by crypto.randomUUID() in the /register route.
DeviceIds == {"d1", "d2"}
\* Opaque refresh credentials the registration endpoint hands out.
RefreshTokens == {"RT1", "RT2"}
\* External callers of the account instance (routes), one call slot each.
Clients == {<<"client", 1>>, <<"client", 2>>}
\* Staged documents (and so jobs) created in a run.
MaxDocs == 1
\* Retries of a failed step before the job runner gives the job up.
StepRetryLimit == 1
\* The job's sleep, "24 hours" (workflow.ts:102), in clock ticks of 12 hours.
SleepTicks == 2

None == "none"
NoCaller == <<"none", 0>>
JobIds == 1..MaxDocs
\* The caller slot of job j's "get authentication" step.
JobCaller(j) == <<"job", j>>
Callers == Clients \cup {JobCaller(j) : j \in JobIds}

\* ------------------------------------------------------------------ tokens
\* An access credential as the code sees it: kind "jwt" decodes to a payload
\* with exp; kind "garbage" makes JSON.parse(atob(split(".")[1])) throw.
\* rt is the refresh credential the upstream issued it for.
NoToken == [kind |-> "none", exp |-> 0, rt |-> None]

Tokens ==
    [kind : {"jwt"}, exp : 0..MaxTime, rt : RefreshTokens]
        \cup [kind : {"garbage"}, exp : {0}, rt : RefreshTokens]

\* if (access_token): null and undefined are falsy.
Present(tok) == tok.kind # "none"

\* The validity test of checkRegisteredStatus and getAccessToken: the token is
\* present, decodes, and payload.exp > now; a decode failure is caught.
IsUnexpired(tok, t) == tok.kind = "jwt" /\ tok.exp > t

\* ------------------------------------------------------------------ state
VARIABLES
    now,        \* Math.floor(Date.now() / 1000), saturating at MaxTime
    inst,       \* "down" (not constructed or evicted) | "ready"
    memory,     \* the object's fields: access_token, auth_host
    storage,    \* ctx.storage: device_id, refresh_token, access_token
    calls,      \* per caller: the call in flight on the account instance
    last,       \* the last step of a call, and what it handed back
    blobs,      \* DOCUMENT_STORAGE: the keys it holds
    jobs,       \* MY_WORKFLOW: the job instances, by job id
    nextDoc     \* the next unused document id (crypto.randomUUID())

vars == <<now, inst, memory, storage, calls, last, blobs, jobs, nextDoc>>

EmptyStorage == [device_id |-> None, refresh_token |-> None, access_token |-> NoToken]
FreshMemory == [access_token |-> NoToken, auth_host |-> "unset"]
Idle == [pc |-> "idle", op |-> None, dev |-> None, bearer |-> None, t0 |-> 0]

\* A step of a call: who called what, whether the call is still awaiting a
\* response ("await"), returned or raised, what it handed back (res, tok), how
\* many token exchanges it has sent, whether the token handed back decodes to
\* an exp strictly after t0, the time the call began, and whether the call
\* began directly after a completed destroy().
Event(c, op, phase, res, tok, exchanges, t0) ==
    [caller |-> c, op |-> op, phase |-> phase, res |-> res, tok |-> tok,
     exchanges |-> exchanges, live |-> IsUnexpired(tok, t0),
     afterDestroy |-> /\ last.op = "destroy"
                      /\ c \in DOMAIN calls
                      /\ calls[c].pc = "idle"]

Init ==
    /\ now = 0
    /\ inst = "down"
    /\ memory = FreshMemory
    /\ storage = EmptyStorage
    /\ calls = [c \in Callers |-> Idle]
    /\ last = [caller |-> NoCaller, op |-> "init", phase |-> "return", res |-> "",
               tok |-> NoToken, exchanges |-> 0, live |-> FALSE,
               afterDestroy |-> FALSE]
    /\ blobs = {}
    /\ jobs = <<>>
    /\ nextDoc = 1

\* ---------------------------------------------------------------- upstream
\* Every answer the token endpoint (auth_host/token/json/2/user/new) can give
\* to an exchange presenting `bearer`: 200 with a token of any expiry or an
\* undecodable body, 200 with an empty body, a non-200 status, or no answer
\* at all (fetch rejects).
TokenReplies(bearer) ==
    [kind : {"200"}, data : {t \in Tokens : t.rt = bearer}]
        \cup [kind : {"200", "non200", "throw"}, data : {NoToken}]

\* Every answer of the registration endpoint (token/json/2/device/new).
RegisterReplies ==
    [kind : {"200"}, data : RefreshTokens]
        \cup [kind : {"200", "non200", "throw"}, data : {None}]

\* Answers of the discovery endpoint: usable, or non-200 / a field missing.
DiscoveryReplies == {"ok", "bad"}

\* ------------------------------------------------------ the account instance
\* What a call hands back once checkRegisteredStatus has answered `ok`, by the
\* method that called it: getAccessToken returns this.access_token or null,
\* register a RegisterResult or an AuthError, getStatus access_token_valid.
Outcome(op, ok, memtok) ==
    CASE op = "getAccessToken" ->
            [res |-> "value", tok |-> IF ok THEN memtok ELSE NoToken]
      [] op = "register" ->
            [res |-> IF ok THEN "success" ELSE "err_refresh", tok |-> NoToken]
      [] OTHER ->
            [res |-> IF ok /\ Present(memtok) THEN "registered_valid"
                                               ELSE "registered_invalid",
             tok |-> NoToken]

Return(c, op, ok, memtok, exchanges, t0) ==
    Event(c, op, "return", Outcome(op, ok, memtok).res,
          Outcome(op, ok, memtok).tok, exchanges, t0)

\* checkRegisteredStatus up to its fetch: which way lines 63-86 go on the
\* persisted record st.
CheckLocal(st) ==
    IF IsUnexpired(st.access_token, now) THEN "valid"
    ELSE IF st.refresh_token # None THEN "exchange"
    ELSE "unregistered"

\* checkRegisteredStatus run for call c of method op on the persisted record st
\* (register has just written st): it answers at once, or sends the exchange
\* and leaves the call awaiting the token endpoint.
CheckRegisteredStatus(c, op, st, dev, t0) ==
    CASE CheckLocal(st) = "valid" ->
            /\ memory' = [memory EXCEPT !.access_token = st.access_token]
            /\ storage' = st
            /\ calls' = [calls EXCEPT ![c] = Idle]
            /\ last' = Return(c, op, TRUE, st.access_token, 0, t0)
      [] CheckLocal(st) = "exchange" ->
            /\ memory' = memory
            /\ storage' = st
            /\ calls' = [calls EXCEPT ![c] =
                            [pc |-> "await_token", op |-> op, dev |-> dev,
                             bearer |-> st.refresh_token, t0 |-> t0]]
            /\ last' = Event(c, op, "await", "", NoToken, 1, t0)
      [] OTHER ->
            /\ memory' = [memory EXCEPT !.access_token = NoToken]
            /\ storage' = st
            /\ calls' = [calls EXCEPT ![c] = Idle]
            /\ last' = Return(c, op, FALSE, NoToken, 0, t0)

\* TokenReplyEffect with a failed refresh deregistering the device.
TokenReplyEffectDeregisters(c, r) ==
    LET k == calls[c] IN
    CASE r.kind = "throw" ->
            /\ UNCHANGED <<memory, storage>>
            /\ last' = Event(c, k.op, "raise", "", NoToken, 1, k.t0)
      [] r.kind = "200" /\ Present(r.data) ->
            /\ memory' = [memory EXCEPT !.access_token = r.data]
            /\ storage' = [storage EXCEPT !.access_token = r.data]
            /\ last' = Return(c, k.op, TRUE, r.data, 1, k.t0)
      [] OTHER ->
            /\ memory' = [memory EXCEPT !.access_token = NoToken]
            /\ storage' = [storage EXCEPT !.refresh_token = None]
            /\ last' = Return(c, k.op, FALSE, NoToken, 1, k.t0)

\* The rest of checkRegisteredStatus, lines 96-115, on the reply r.
TokenReplyEffect(c, r) ==
    LET k == calls[c] IN
    CASE r.kind = "throw" ->
            /\ UNCHANGED <<memory, storage>>
            /\ last' = Event(c, k.op, "raise", "", NoToken, 1, k.t0)
      [] r.kind = "200" /\ Present(r.data) ->
            /\ memory' = [memory EXCEPT !.access_token = r.data]
            /\ storage' = [storage EXCEPT !.access_token = r.data]
            /\ last' = Return(c, k.op, TRUE, r.data, 1, k.t0)
      [] OTHER ->
            /\ memory' = [memory EXCEPT !.access_token = NoToken]
            /\ storage' = storage
            /\ last' = Return(c, k.op, FALSE, NoToken, 1, k.t0)

\* A call resumes after its await of the token exchange.
AuthDO_tokenResponse(c) ==
    /\ calls[c].pc = "await_token"
    /\ \E r \in TokenReplies(calls[c].bearer) : TokenReplyEffect(c, r)
    /\ calls' = [calls EXCEPT ![c] = Idle]
    /\ UNCHANGED <<now, inst>>

TokenResponse(c) == AuthDO_tokenResponse(c) /\ UNCHANGED <<blobs, jobs, nextDoc>>

\* CanCall with calls delivered to an object whose constructor has not finished.
CanCallBeforeInit(c) == calls[c].pc = "idle"

\* A call is delivered once the constructor's blockConcurrencyWhile is over,
\* to a caller that has no call in flight.
CanCall(c) == inst = "ready" /\ calls[c].pc = "idle"

\* getAccessToken up to its return or its await of the token exchange.
AuthDO_getAccessToken(c) ==
    /\ CanCall(c)
    /\ IF IsUnexpired(memory.access_token, now)
       THEN /\ last' = Return(c, "getAccessToken", TRUE, memory.access_token, 0, now)
            /\ UNCHANGED <<memory, storage, calls>>
       ELSE CheckRegisteredStatus(c, "getAccessToken", storage, None, now)
    /\ UNCHANGED <<now, inst>>

GetAccessToken(c) == AuthDO_getAccessToken(c) /\ UNCHANGED <<blobs, jobs, nextDoc>>

Register(c, deviceId) ==
    /\ CanCall(c)
    /\ storage' = [storage EXCEPT !.device_id = deviceId]
    /\ calls' = [calls EXCEPT ![c] =
                    [pc |-> "await_register", op |-> "register", dev |-> deviceId,
                     bearer |-> None, t0 |-> now]]
    /\ last' = Event(c, "register", "await", "", NoToken, 0, now)
    /\ UNCHANGED <<now, inst, memory, blobs, jobs, nextDoc>>

\* RegisterReplyEffect with a refused registration erasing the refresh
\* credential that was persisted before.
RegisterReplyEffectRollsBack(c, r) ==
    LET k == calls[c] IN
    IF r.kind = "200" /\ r.data # None
    THEN CheckRegisteredStatus(c, "register",
             [storage EXCEPT !.refresh_token = r.data], k.dev, k.t0)
    ELSE /\ calls' = [calls EXCEPT ![c] = Idle]
         /\ last' = Event(c, "register", IF r.kind = "throw" THEN "raise" ELSE "return",
                          IF r.kind = "non200" THEN "err_status"
                          ELSE IF r.kind = "200" THEN "err_nodata" ELSE "",
                          NoToken, 0, k.t0)
         /\ storage' = [storage EXCEPT !.refresh_token = None]
         /\ UNCHANGED memory

\* register after its fetch, lines 143-175, on the reply r.
RegisterReplyEffect(c, r) ==
    LET k == calls[c] IN
    CASE r.kind = "throw" ->
            /\ calls' = [calls EXCEPT ![c] = Idle]
            /\ last' = Event(c, "register", "raise", "", NoToken, 0, k.t0)
            /\ UNCHANGED <<memory, storage>>
      [] r.kind = "non200" ->
            /\ calls' = [calls EXCEPT ![c] = Idle]
            /\ last' = Event(c, "register", "return", "err_status", NoToken, 0, k.t0)
            /\ UNCHANGED <<memory, storage>>
      [] r.kind = "200" /\ r.data = None ->
            /\ calls' = [calls EXCEPT ![c] = Idle]
            /\ last' = Event(c, "register", "return", "err_nodata", NoToken, 0, k.t0)
            /\ UNCHANGED <<memory, storage>>
      [] OTHER ->
            CheckRegisteredStatus(c, "register",
                [storage EXCEPT !.refresh_token = r.data], k.dev, k.t0)

RegisterResponse(c) ==
    /\ calls[c].pc = "await_register"
    /\ \E r \in RegisterReplies : RegisterReplyEffect(c, r)
    /\ UNCHANGED <<now, inst, blobs, jobs, nextDoc>>

Registered(st) == st.device_id # None /\ st.refresh_token # None

IsRegistered(c) ==
    /\ CanCall(c)
    /\ last' = Event(c, "isRegistered", "return",
                     IF Registered(storage) THEN "true" ELSE "false", NoToken, 0, now)
    /\ UNCHANGED <<now, inst, memory, storage, calls, blobs, jobs, nextDoc>>

GetStatus(c) ==
    /\ CanCall(c)
    /\ IF ~Registered(storage)
       THEN /\ last' = Event(c, "getStatus", "return", "unregistered", NoToken, 0, now)
            /\ UNCHANGED <<memory, storage, calls>>
       ELSE IF IsUnexpired(memory.access_token, now)
       THEN /\ last' = Return(c, "getStatus", TRUE, memory.access_token, 0, now)
            /\ UNCHANGED <<memory, storage, calls>>
       ELSE CheckRegisteredStatus(c, "getStatus", storage, storage.device_id, now)
    /\ UNCHANGED <<now, inst, blobs, jobs, nextDoc>>

\* destroy without the reset of the in-memory access_token.
DestroyKeepsCache(c) ==
    /\ CanCall(c)
    /\ storage' = EmptyStorage
    /\ memory' = memory
    /\ last' = Event(c, "destroy", "return", "void", NoToken, 0, now)
    /\ UNCHANGED <<now, inst, calls, blobs, jobs, nextDoc>>

Destroy(c) ==
    /\ CanCall(c)
    /\ storage' = EmptyStorage
    /\ memory' = [memory EXCEPT !.access_token = NoToken]
    /\ last' = Event(c, "destroy", "return", "void", NoToken, 0, now)
    /\ UNCHANGED <<now, inst, calls, blobs, jobs, nextDoc>>

\* The constructor: initializeApiHost, then checkRegisteredStatus, both inside
\* blockConcurrencyWhile.  A throw of either leaves the object unconstructed.
\* Its event records the discovery answer d and whether it sent the exchange.
ConstructEffect(d, r) ==
    IF d = "bad" \/ (CheckLocal(storage) = "exchange" /\ r.kind = "throw")
    THEN /\ last' = Event(NoCaller, "constructor", "raise", d, NoToken,
                          IF d = "ok" THEN 1 ELSE 0, now)
         /\ UNCHANGED <<inst, memory, storage>>
    ELSE /\ inst' = "ready"
         /\ last' = Event(NoCaller, "constructor", "return", d, NoToken,
                          IF CheckLocal(storage) = "exchange" THEN 1 ELSE 0, now)
         /\ CASE CheckLocal(storage) = "valid" ->
                    /\ memory' = [access_token |-> storage.access_token,
                                  auth_host |-> "resolved"]
                    /\ storage' = storage
              [] CheckLocal(storage) = "exchange" /\ r.kind = "200" /\ Present(r.data) ->
                    /\ memory' = [access_token |-> r.data, auth_host |-> "resolved"]
                    /\ storage' = [storage EXCEPT !.access_token = r.data]
              [] OTHER ->
                    /\ memory' = [access_token |-> NoToken, auth_host |-> "resolved"]
                    /\ storage' = storage

Construct ==
    /\ inst = "down"
    /\ \E d \in DiscoveryReplies :
         \E r \in TokenReplies(storage.refresh_token) : ConstructEffect(d, r)
    /\ UNCHANGED <<now, calls, blobs, jobs, nextDoc>>

\* The runtime drops an idle object; its fields are lost, its storage kept.
Evict ==
    /\ inst = "ready"
    /\ \A c \in DOMAIN calls : calls[c].pc = "idle"
    /\ inst' = "down"
    /\ memory' = FreshMemory
    /\ last' = Event(NoCaller, "evict", "return", "", NoToken, 0, now)
    /\ UNCHANGED <<now, storage, calls, blobs, jobs, nextDoc>>

Tick ==
    /\ now' = IF now < MaxTime THEN now + 1 ELSE now
    /\ jobs' = [j \in DOMAIN jobs |->
                  IF jobs[j].step = "sleep" /\ jobs[j].sleepLeft > 0
                  THEN [jobs[j] EXCEPT !.sleepLeft = @ - 1]
                  ELSE jobs[j]]
    /\ UNCHANGED <<inst, memory, storage, calls, last, blobs, nextDoc>>

Call(c) ==
    \/ GetAccessToken(c)
    \/ \E d \in DeviceIds : Register(c, d)
    \/ IsRegistered(c)
    \/ GetStatus(c)
    \/ Destroy(c)
    \/ TokenResponse(c)
    \/ RegisterResponse(c)

\* ------------------------------------------------------ upload orchestrator
UploadCaller == <<"upload", 0>>

\* A job instance.  step is the first step of run() whose result the runner
\* has not recorded yet, pc the step the current execution of run() stands at
\* (behind step only while a restarted run() passes over recorded steps).
NewJob(fileId) ==
    [fileId |-> fileId, status |-> "running", step |-> "retrieve",
     pc |-> "retrieve", authInfo |-> NoToken, attempts |-> 0, sleepLeft |-> 0,
     posts |-> 0, failedAt |-> None]

\* uploadFile staging the document before it looks at isRegistered.
UploadFileStagesFirst(o) ==
    /\ inst = "ready"
    /\ nextDoc <= MaxDocs
    /\ nextDoc' = nextDoc + 1
    /\ blobs' = IF o = "put_throws" THEN blobs ELSE blobs \cup {nextDoc}
    /\ jobs' = IF o = "ok" /\ Registered(storage)
               THEN Append(jobs, NewJob(nextDoc)) ELSE jobs
    /\ last' = IF ~Registered(storage)
               THEN Event(UploadCaller, "uploadFile", "raise", "not_registered",
                          NoToken, 0, now)
               ELSE Event(UploadCaller, "uploadFile",
                          IF o = "ok" THEN "return" ELSE "raise", o, NoToken, 0, now)
    /\ UNCHANGED <<now, inst, memory, storage, calls>>

\* uploadFile: isRegistered on the account instance, then DOCUMENT_STORAGE.put
\* under a fresh id, then MY_WORKFLOW.create; o is how far the collaborators
\* let it get ("put_throws": the blob store fails; "create_throws": the job
\* scheduler fails after the blob is stored).
UploadFile(o) ==
    /\ inst = "ready"
    /\ IF ~Registered(storage)
       THEN /\ last' = Event(UploadCaller, "uploadFile", "raise", "not_registered",
                             NoToken, 0, now)
            /\ UNCHANGED <<blobs, jobs, nextDoc>>
       ELSE /\ nextDoc <= MaxDocs
            /\ nextDoc' = nextDoc + 1
            /\ blobs' = IF o = "put_throws" THEN blobs ELSE blobs \cup {nextDoc}
            /\ jobs' = IF o = "ok" THEN Append(jobs, NewJob(nextDoc)) ELSE jobs
            /\ last' = Event(UploadCaller, "uploadFile",
                             IF o = "ok" THEN "return" ELSE "raise", o, NoToken, 0, now)
    /\ UNCHANGED <<now, inst, memory, storage, calls>>

\* ------------------------------------------------------------------ the job
\* AttemptFailed with a runner that re-runs a throwing step without limit.
AttemptFailedRetriesForever(job) == job

\* The runner re-runs a step that threw until its retries are used up, then
\* the error leaves run() and the job ends errored.
AttemptFailed(job) ==
    IF job.attempts < StepRetryLimit
    THEN [job EXCEPT !.attempts = @ + 1]
    ELSE [job EXCEPT !.status = "errored", !.failedAt = job.step]

\* The step's result is recorded and run() goes on to the next step.
StepDone(job, next) == [job EXCEPT !.step = next, !.pc = next, !.attempts = 0]

\* run() stands at `step`, and the runner holds no recorded result for it, so
\* the step's callback is executed.
AtStep(j, step) ==
    /\ j \in DOMAIN jobs
    /\ jobs[j].status = "running"
    /\ jobs[j].step = step
    /\ jobs[j].pc = step

\* The steps of run() in program order.
StepOrder == <<"retrieve", "auth", "upload", "sleep", "cleanup", "done">>
Rank(s) == CHOOSE i \in 1..Len(StepOrder) : StepOrder[i] = s

\* Restart losing the recorded results of the steps already done.
RestartForgetsResults(j) ==
    /\ j \in DOMAIN jobs
    /\ jobs[j].status = "running"
    /\ jobs[j].pc # "retrieve"
    /\ calls[JobCaller(j)].pc = "idle"
    /\ jobs' = [jobs EXCEPT ![j].pc = "retrieve", ![j].step = "retrieve"]
    /\ UNCHANGED <<now, inst, memory, storage, calls, last, blobs, nextDoc>>

\* The runner starts run() again from its first line (after a crash or a
\* restart of the runner) while the job has no call in flight on the account
\* instance; the recorded results stay.
Restart(j) ==
    /\ j \in DOMAIN jobs
    /\ jobs[j].status = "running"
    /\ jobs[j].pc # "retrieve"
    /\ calls[JobCaller(j)].pc = "idle"
    /\ jobs' = [jobs EXCEPT ![j].pc = "retrieve"]
    /\ UNCHANGED <<now, inst, memory, storage, calls, last, blobs, nextDoc>>

\* step.do / step.sleep on a step whose result is recorded: the recorded
\* result is handed to run() and the callback is not executed.
Replay(j) ==
    /\ j \in DOMAIN jobs
    /\ jobs[j].status = "running"
    /\ Rank(jobs[j].pc) < Rank(jobs[j].step)
    /\ jobs' = [jobs EXCEPT ![j].pc = StepOrder[Rank(jobs[j].pc) + 1]]
    /\ UNCHANGED <<now, inst, memory, storage, calls, last, blobs, nextDoc>>

\* step.do("retrieve file info")
RetrieveFileInfo(j) ==
    /\ AtStep(j, "retrieve")
    /\ jobs' = [jobs EXCEPT ![j] =
                  IF jobs[j].fileId \in blobs
                  THEN StepDone(jobs[j], "auth")
                  ELSE AttemptFailed(jobs[j])]
    /\ UNCHANGED <<now, inst, memory, storage, calls, last, blobs, nextDoc>>

\* AuthResult without the throw on a missing token.
AuthResultUnchecked(job, e) ==
    IF e.phase = "await" THEN job
    ELSE [StepDone(job, "upload") EXCEPT !.authInfo = e.tok]

\* What step.do("get authentication") makes of the answer e of getAccessToken.
AuthResult(job, e) ==
    CASE e.phase = "await" -> job
      [] e.phase = "return" /\ Present(e.tok) ->
            [StepDone(job, "upload") EXCEPT !.authInfo = e.tok]
      [] OTHER -> AttemptFailed(job)

\* step.do("get authentication"): the call of getAccessToken on the account
\* instance, and its return to the step.
GetAuthentication(j) ==
    /\ AtStep(j, "auth")
    /\ \/ AuthDO_getAccessToken(JobCaller(j))
       \/ AuthDO_tokenResponse(JobCaller(j))
    /\ jobs' = [jobs EXCEPT ![j] = AuthResult(jobs[j], last')]
    /\ UNCHANGED <<blobs, nextDoc>>

\* What step.do("upload to reMarkable API") makes of the answer r to its POST.
UploadResult(job, r) ==
    IF r = "ok"
    THEN [StepDone(job, "sleep") EXCEPT !.posts = @ + 1, !.sleepLeft = SleepTicks]
    ELSE [AttemptFailed(job) EXCEPT !.posts = @ + 1]

\* step.do("upload to reMarkable API"), then step.sleep("24 hours").
UploadToRemarkable(j) ==
    /\ AtStep(j, "upload")
    /\ IF jobs[j].fileId \notin blobs
       THEN jobs' = [jobs EXCEPT ![j] = AttemptFailed(jobs[j])]
       ELSE \E r \in {"ok", "not_ok", "throw"} :
                jobs' = [jobs EXCEPT ![j] = UploadResult(jobs[j], r)]
    /\ UNCHANGED <<now, inst, memory, storage, calls, last, blobs, nextDoc>>

\* WakeUp before the sleep is over.
WakeUpEarly(j) ==
    /\ AtStep(j, "sleep")
    /\ jobs' = [jobs EXCEPT ![j] = StepDone(jobs[j], "cleanup")]
    /\ UNCHANGED <<now, inst, memory, storage, calls, last, blobs, nextDoc>>

\* The durable timer of step.sleep fires.
WakeUp(j) ==
    /\ AtStep(j, "sleep")
    /\ jobs[j].sleepLeft = 0
    /\ jobs' = [jobs EXCEPT ![j] = StepDone(jobs[j], "cleanup")]
    /\ UNCHANGED <<now, inst, memory, storage, calls, last, blobs, nextDoc>>

\* CleanupEffect completing the job without the delete.
CleanupEffectKeepsBlob(j, r) ==
    /\ blobs' = blobs
    /\ jobs' = [jobs EXCEPT ![j] =
                  IF r = "deleted"
                  THEN [StepDone(jobs[j], "done") EXCEPT !.status = "complete"]
                  ELSE AttemptFailed(jobs[j])]

\* step.do("cleanup and delete file"); r is what DOCUMENT_STORAGE.delete does.
CleanupEffect(j, r) ==
    IF r = "deleted"
    THEN /\ blobs' = blobs \ {jobs[j].fileId}
         /\ jobs' = [jobs EXCEPT ![j] =
                       [StepDone(jobs[j], "done") EXCEPT !.status = "complete"]]
    ELSE /\ blobs' = blobs
         /\ jobs' = [jobs EXCEPT ![j] = AttemptFailed(jobs[j])]

CleanupAndDelete(j) ==
    /\ AtStep(j, "cleanup")
    /\ \E r \in {"deleted", "throws"} : CleanupEffect(j, r)
    /\ UNCHANGED <<now, inst, memory, storage, calls, last, nextDoc>>

JobStep(j) ==
    \/ RetrieveFileInfo(j)
    \/ GetAuthentication(j)
    \/ UploadToRemarkable(j)
    \/ WakeUp(j)
    \/ CleanupAndDelete(j)

\* ------------------------------------------------------ routes, email entry
\* The value of the SIGNUP_DISABLED variable; signup is open only for "false".
SignupDisabledValues == {"false", "true"}
\* The request body of POST /register: JSON with a linkCode, JSON without
\* one, or a body c.req.json() throws on.
RegisterBodies == {"code", "no_code", "bad_json"}

\* c.json(..., status): the route answers and touches nothing else.
RouteReply(c, status) ==
    /\ last' = Event(c, "POST /register", "return", status, NoToken, 0, now)
    /\ UNCHANGED <<now, inst, memory, storage, calls, blobs, jobs, nextDoc>>

\* POST /register reading the body before it looks at SIGNUP_DISABLED.
PostRegisterParsesFirst(c, signupDisabled, body, deviceId) ==
    IF body = "bad_json" THEN RouteReply(c, "500")
    ELSE IF signupDisabled # "false" THEN RouteReply(c, "403")
    ELSE IF body = "no_code" THEN RouteReply(c, "400")
    ELSE /\ storage = EmptyStorage
         /\ \A k \in DOMAIN calls : calls[k].pc = "idle"
         /\ Register(c, deviceId)

\* POST /register up to its answer or its call of register.  The account
\* instance it calls is named by a fresh authDoId: nothing is persisted in it
\* and no call is in flight on it.
PostRegister(c, signupDisabled, body, deviceId) ==
    IF signupDisabled # "false" THEN RouteReply(c, "403")
    ELSE IF body = "bad_json" THEN RouteReply(c, "500")
    ELSE IF body = "no_code" THEN RouteReply(c, "400")
    ELSE /\ storage = EmptyStorage
         /\ \A k \in DOMAIN calls : calls[k].pc = "idle"
         /\ Register(c, deviceId)

\* The status POST /register answers with once register has handed back e.
PostRegisterStatus(e) ==
    IF e.phase = "raise" THEN "500"
    ELSE IF e.res = "success" THEN "200"
    ELSE "400"

\* POST /register after its await of register.
PostRegisterRespond(c) ==
    /\ last.caller = c
    /\ last.op = "register"
    /\ last.phase \in {"return", "raise"}
    /\ RouteReply(c, PostRegisterStatus(last))

EmailCaller == <<"email", 0>>

\* The email entry point on a message with or without attachments and with
\* or without a to address.  Line 182 reads toAddress, which nothing declares:
\* a ReferenceError, so lines 183-197 (the uploads) are never reached.
Email(attachments, to) ==
    /\ last' = IF attachments = "none"
               THEN Event(EmailCaller, "email", "return", "reject_no_attachment",
                          NoToken, 0, now)
               ELSE IF to = "none"
               THEN Event(EmailCaller, "email", "return", "reject_no_to",
                          NoToken, 0, now)
               ELSE Event(EmailCaller, "email", "raise", "ReferenceError",
                          NoToken, 0, now)
    /\ UNCHANGED <<now, inst, memory, storage, calls, blobs, jobs, nextDoc>>

\* ------------------------------------------------------------ specifications
\* The account instance under concurrent callers.
Next ==
    \/ Tick
    \/ Construct
    \/ Evict
    \/ \E c \in Clients : Call(c)

Spec == Init /\ [][Next]_vars

\* The account instance with one caller, whose calls therefore never overlap.
SerialNext ==
    \/ Tick
    \/ Construct
    \/ Evict
    \/ Call(<<"client", 1>>)

SerialSpec == Init /\ [][SerialNext]_vars

\* Uploads and jobs against an account instance that is constructed and either
\* was never registered or has completed one register call at time 0 (the
\* states Spec reaches by Construct, or by Construct, Register,
\* RegisterResponse and TokenResponse); the only route call left is destroy.
RouteCaller == <<"client", 1>>

JobInit ==
    /\ now = 0
    /\ inst = "ready"
    /\ calls = [c \in Callers |-> Idle]
    /\ blobs = {}
    /\ jobs = <<>>
    /\ nextDoc = 1
    /\ \/ /\ memory = [access_token |-> NoToken, auth_host |-> "resolved"]
          /\ storage = EmptyStorage
          /\ last = [caller |-> NoCaller, op |-> "constructor", phase |-> "return",
                     res |-> "ok", tok |-> NoToken, exchanges |-> 0, live |-> FALSE,
                     afterDestroy |-> FALSE]
       \/ \E t \in {x \in Tokens : x.rt = "RT1"} :
             /\ memory = [access_token |-> t, auth_host |-> "resolved"]
             /\ storage = [device_id |-> "d1", refresh_token |-> "RT1",
                           access_token |-> t]
             /\ last = [caller |-> RouteCaller, op |-> "register",
                        phase |-> "return", res |-> "success", tok |-> NoToken,
                        exchanges |-> 1, live |-> FALSE, afterDestroy |-> FALSE]

JobNext ==
    \/ Tick
    \/ Destroy(RouteCaller)
    \/ \E o \in {"ok", "put_throws", "create_throws"} : UploadFile(o)
    \/ \E j \in JobIds : JobStep(j)

JobSpec == JobInit /\ [][JobNext]_vars

\* Uploads and jobs of a registered account with a runner that may restart
\* run() at any moment.  The account starts with a cached token that expires
\* at MaxTime, so that the Authenticate step meets the cached token first and
\* every answer of the token endpoint once the clock has reached MaxTime.
ResumeInit ==
    /\ JobInit
    /\ memory.access_token.kind = "jwt"
    /\ memory.access_token.exp = MaxTime

ResumeNext ==
    \/ Tick
    \/ \E o \in {"ok", "put_throws", "create_throws"} : UploadFile(o)
    \/ \E j \in JobIds : JobStep(j)
    \/ \E j \in JobIds : Restart(j)
    \/ \E j \in JobIds : Replay(j)

ResumeSpec == ResumeInit /\ [][ResumeNext]_vars

\* The HTTP routes and the email entry point against one account instance.
RouteNext ==
    \/ Tick
    \/ Construct
    \/ Evict
    \/ \E c \in Clients :
          \/ \E sd \in SignupDisabledValues, b \in RegisterBodies, d \in DeviceIds :
                PostRegister(c, sd, b, d)
          \/ RegisterResponse(c)
          \/ TokenResponse(c)
          \/ PostRegisterRespond(c)
          \/ GetStatus(c)
          \/ Destroy(c)
    \/ \E a \in {"none", "some"}, t \in {"none", "usable"} : Email(a, t)

RouteSpec == Init /\ [][RouteNext]_vars

JobLive ==
    /\ JobSpec
    /\ WF_vars(Tick)
    /\ \A j \in JobIds : WF_vars(JobStep(j))

\* ------------------------------------------------------------------- claims
\* C1: for a registered account, every getAccessToken() call returns a
\* credential whose decoded exp is strictly greater than the time of the call,
\* or absent, whatever the token endpoint answers.
C1_ReturnsUnexpiredOrAbsent ==
    (last.op = "getAccessToken" /\ last.phase = "return" /\ Registered(storage))
        => (~Present(last.tok) \/ last.live)

\* C2: a completed destroy() followed directly by isRegistered() yields false,
\* and followed directly by getAccessToken() yields absent without any token
\* exchange being sent.
C2_DestroyThenUnregistered ==
    last.afterDestroy =>
        /\ last.op = "isRegistered" => last.res = "false"
        /\ last.op = "getStatus" => last.res = "unregistered"
        /\ last.op = "getAccessToken" =>
              (last.phase = "return" /\ ~Present(last.tok) /\ last.exchanges = 0)

\* C2 witness: getAccessToken answered directly after a destroy() that ran
\* while another call was awaiting the token endpoint.
C2_Witness ==
    /\ last.afterDestroy
    /\ last.op = "getAccessToken"
    /\ \E c \in Clients : calls[c].pc = "await_token"

\* A register call answered with a non-success status or an empty body.
RefusedRegister(e) ==
    e.op = "register" /\ e.phase = "return" /\ e.res \in {"err_status", "err_nodata"}

\* C3 as stated: a register call refused by the registration endpoint returns
\* AuthError and leaves no persisted refresh credential, whatever the state
\* before the call, and its device_id persisted.
C3_RefusedRegisterLeavesNoRefresh ==
    RefusedRegister(last) =>
        (storage.refresh_token = None /\ storage.device_id # None)

\* C3 amended: a register call persists its device_id before the registration
\* request is sent, and a refusal by the registration endpoint returns
\* AuthError leaving the persisted record, the refresh credential included,
\* exactly as the response found it.
C3_RefusedRegisterWritesNothing ==
    [][\A c \in Clients :
          /\ (calls[c].pc = "idle" /\ calls'[c].pc = "await_register")
                => storage' = [storage EXCEPT !.device_id = calls'[c].dev]
          /\ (calls[c].pc = "await_register" /\ calls'[c].pc = "idle"
                /\ last'.caller = c /\ RefusedRegister(last'))
                => storage' = storage]_vars

\* C3 witness: a refused register on an instance that holds the refresh
\* credential of an earlier registration.
C3_Witness ==
    /\ RefusedRegister(last)
    /\ storage.refresh_token # None
    /\ storage.device_id # None
    /\ \A c \in Clients : calls[c].pc = "idle"

\* C4: whenever register returns AuthError, the refresh credential the
\* registration endpoint returned to that call is not persisted.
C4_FailedRegisterPersistsNothing ==
    [][\A c \in Clients :
          (calls[c].pc = "await_token" /\ calls[c].op = "register"
             /\ calls'[c].pc = "idle" /\ last'.res = "err_refresh")
            => storage'.refresh_token # calls[c].bearer]_vars

\* C5: with a decodable access credential cached with expiry E, a
\* getAccessToken() call at t < E sends nothing and returns the cached
\* credential unchanged; at t >= E it sends exactly one token exchange.
C5_CachedTokenExchanges ==
    [][\A c \in Clients :
          (GetAccessToken(c) /\ memory.access_token.kind = "jwt")
            => IF now < memory.access_token.exp
               THEN /\ last'.phase = "return"
                    /\ last'.tok = memory.access_token
                    /\ last'.exchanges = 0
                    /\ memory' = memory
               ELSE /\ last'.phase = "await"
                    /\ last'.exchanges = 1]_vars

\* A call that sent the token exchange and got no credential from it.
FailedRefresh(e) ==
    /\ e.phase = "return"
    /\ e.exchanges = 1
    /\ \/ e.op = "getAccessToken" /\ ~Present(e.tok)
       \/ e.op = "register" /\ e.res = "err_refresh"
       \/ e.op = "getStatus" /\ e.res = "registered_invalid"

\* C6: a failed refresh leaves the persisted device_id and refresh credential
\* unchanged, so isRegistered() answers the same before and after; a persisted
\* refresh credential is removed by destroy() only.
C6_FailedRefreshKeepsRegistration ==
    [][/\ \A c \in Clients :
            (calls[c].pc = "await_token" /\ calls'[c].pc = "idle"
               /\ FailedRefresh(last'))
              => /\ storage'.device_id = storage.device_id
                 /\ storage'.refresh_token = storage.refresh_token
                 /\ Registered(storage') = Registered(storage)
       /\ (storage.refresh_token # None /\ storage'.refresh_token = None)
              => last'.op = "destroy"]_vars

\* C6 witness: getAccessToken has returned absent after a refused exchange and
\* the device is still registered.
C6_Witness ==
    /\ FailedRefresh(last)
    /\ last.op = "getAccessToken"
    /\ Registered(storage)

\* C7: getAccessToken() never raises.
C7_GetAccessTokenNeverRaises ==
    last.op = "getAccessToken" => last.phase # "raise"

\* C8: uploadFile for an account whose isRegistered() is false fails and
\* changes neither the blob store nor the job scheduler.
C8_UnregisteredUploadStagesNothing ==
    [][\A o \in {"ok", "put_throws", "create_throws"} :
          (UploadFile(o) /\ ~Registered(storage))
            => /\ last'.phase = "raise"
               /\ last'.res = "not_registered"
               /\ blobs' = blobs
               /\ jobs' = jobs
               /\ nextDoc' = nextDoc]_vars

\* C8 witness: an upload refused for want of registration (after destroy)
\* while the blob of an earlier upload is in the store.
C8_Witness ==
    /\ last.op = "uploadFile"
    /\ last.res = "not_registered"
    /\ ~Registered(storage)
    /\ blobs # {}

JobFailedAtAuth(j) == jobs[j].status = "errored" /\ jobs[j].failedAt = "auth"

\* C9: a job whose Authenticate step obtains no access token ends failed, and
\* for that job the POST, the sleep and the blob delete never happen: the job
\* leaves the Authenticate step only with a recorded token, an answer without
\* a token fails the step's attempt, and a failed job takes no further step.
C9_NoTokenNoUpload ==
    /\ [](\A j \in DOMAIN jobs :
            /\ ~Present(jobs[j].authInfo)
                  => /\ jobs[j].posts = 0
                     /\ jobs[j].step \in {"retrieve", "auth"}
                     /\ jobs[j].fileId \in blobs
            /\ JobFailedAtAuth(j) => ~Present(jobs[j].authInfo))
    /\ [][\A j \in DOMAIN jobs :
            /\ (GetAuthentication(j) /\ last'.phase # "await"
                   /\ ~Present(last'.tok))
                  => IF jobs[j].attempts < StepRetryLimit
                     THEN jobs'[j] = [jobs[j] EXCEPT !.attempts = @ + 1]
                     ELSE JobFailedAtAuth(j)'
            /\ jobs[j].status = "errored" => jobs'[j] = jobs[j]]_vars

\* C9 witness: a job ended failed in the Authenticate step, nothing posted,
\* its blob still staged.
C9_Witness ==
    \E j \in DOMAIN jobs :
        /\ JobFailedAtAuth(j)
        /\ jobs[j].posts = 0
        /\ jobs[j].fileId \in blobs
        /\ last.caller = JobCaller(j)
        /\ last.phase = "return"

\* C10: a job whose upload step succeeded reaches Cleanup, and only after the
\* whole sleep; once Cleanup has succeeded the blob store no longer holds the
\* job's document id and the job is complete.
C10_UploadedJobIsCleanedUp ==
    /\ \A j \in JobIds :
          (j \in DOMAIN jobs /\ jobs[j].step = "sleep")
            ~> (j \in DOMAIN jobs /\ jobs[j].step \in {"cleanup", "done"})
    /\ [](\A j \in DOMAIN jobs :
            /\ jobs[j].step \in {"cleanup", "done"} => jobs[j].sleepLeft = 0
            /\ jobs[j].step = "done"
                  => (jobs[j].fileId \notin blobs /\ jobs[j].status = "complete")
            /\ jobs[j].status = "complete" => jobs[j].step = "done")

\* C10 witness: a job complete after Cleanup, its blob gone.
C10_Witness ==
    \E j \in DOMAIN jobs :
        /\ jobs[j].status = "complete"
        /\ jobs[j].step = "done"
        /\ jobs[j].posts > 0
        /\ jobs[j].fileId \notin blobs

\* C11: a failing blob delete in the Cleanup step is reported but the job
\* still ends complete: no job ends failed in its Cleanup step.
C11_DeleteFailureStillComplete ==
    \A j \in DOMAIN jobs :
        ~(jobs[j].status = "errored" /\ jobs[j].failedAt = "cleanup")

\* C12: whenever a job's upload step sends its POST, the bearer token it sends
\* (the one its Authenticate step recorded) has exp strictly after the current
\* time.
C12_PostedTokenUnexpired ==
    [][\A j \in DOMAIN jobs :
          jobs'[j].posts > jobs[j].posts
            => IsUnexpired(jobs[j].authInfo, now)]_vars

PublicOps == {"register", "getAccessToken", "isRegistered", "getStatus", "destroy"}

\* C13: no registration request and no token exchange is sent before discovery
\* has answered successfully (the constructor sends its exchange only after a
\* usable discovery answer, a call in flight runs on a constructed object
\* whose auth_host is resolved), and no public call takes a step before the
\* constructor has finished.
C13_NothingBeforeInitialization ==
    /\ [](/\ inst = "ready" => memory.auth_host = "resolved"
          /\ \A c \in DOMAIN calls : calls[c].pc # "idle" => inst = "ready"
          /\ last.op \in PublicOps => inst = "ready"
          /\ (last.op = "constructor" /\ last.exchanges > 0) => last.res = "ok")
    /\ [][(last' # last /\ last'.op \in PublicOps)
            => (inst = "ready" /\ memory.auth_host = "resolved")]_vars

\* C13 witness: a constructor that, discovery resolved, sent the token exchange
\* for the persisted refresh credential and finished.
C13_Witness ==
    /\ last.op = "constructor"
    /\ last.phase = "return"
    /\ last.exchanges = 1
    /\ inst = "ready"
    /\ memory.auth_host = "resolved"

\* C14 as stated: POST /register answers 400 when signup is disabled or the
\* link code is missing, changing nothing in the account instance.
C14_DisabledOrMissingIs400 ==
    [][\A c \in Clients, sd \in SignupDisabledValues, b \in RegisterBodies,
         d \in DeviceIds :
          (PostRegister(c, sd, b, d) /\ (sd # "false" \/ b = "no_code"))
            => /\ last'.res = "400"
               /\ UNCHANGED <<inst, memory, storage, calls>>]_vars

\* C14 amended: POST /register answers 403 when signup is disabled, and 400
\* when signup is open and the body has no link code; neither constructs the
\* account instance, calls register or sends a request.  It answers 500 only
\* when something raised: the body could not be parsed, or register raised.
C14_Disabled403Missing400 ==
    [][\A c \in Clients :
          /\ \A sd \in SignupDisabledValues, b \in RegisterBodies, d \in DeviceIds :
                PostRegister(c, sd, b, d)
                  => /\ sd # "false"
                          => /\ last'.op = "POST /register"
                             /\ last'.res = "403"
                             /\ UNCHANGED <<inst, memory, storage, calls>>
                     /\ (sd = "false" /\ b = "no_code")
                          => /\ last'.op = "POST /register"
                             /\ last'.res = "400"
                             /\ UNCHANGED <<inst, memory, storage, calls>>
                     /\ (last'.op = "POST /register" /\ last'.res = "500")
                          => (sd = "false" /\ b = "bad_json")
          /\ PostRegisterRespond(c)
                => (last'.res = "500" <=> last.phase = "raise")]_vars

\* C14 witness: POST /register refused because signup is disabled, the
\* account instance neither constructed nor written.
C14_Witness ==
    /\ last.op = "POST /register"
    /\ last.res = "403"
    /\ inst = "down"
    /\ storage = EmptyStorage

\* C15: the email entry point ends without raising, for every inbound email.
C15_EmailNeverRaises ==
    last.op = "email" => last.phase # "raise"

\* C16: a call that was in flight when destroy() ran re-creates no credential:
\* a call resuming from the token exchange that finds the refresh credential
\* erased, or from the registration request that finds the device_id erased,
\* leaves the instance without refresh credential and without persisted or
\* cached access credential.
C16_InFlightCallRecreatesNothing ==
    [][\A c \in Clients :
          (/\ last'.caller = c
           /\ calls'[c].pc # calls[c].pc
           /\ \/ calls[c].pc = "await_token" /\ storage.refresh_token = None
              \/ calls[c].pc = "await_register" /\ storage.device_id = None)
            => /\ storage'.refresh_token = None
               /\ storage'.access_token = NoToken
               /\ memory'.access_token = NoToken]_vars

\* C17: a persisted refresh credential implies a persisted device_id, so
\* isRegistered() is true exactly when a refresh credential is persisted.
C17_RefreshImpliesDeviceId ==
    /\ storage.refresh_token # None => storage.device_id # None
    /\ Registered(storage) <=> storage.refresh_token # None

\* C18: when run() is retried or restarted, a step whose result is recorded is
\* not executed again and its result is reused: once the upload step's result
\* is recorded no POST is sent again for the job, once the Authenticate step's
\* result is recorded the job calls getAccessToken no more and keeps the token
\* it recorded, and no recorded result is ever lost.
C18_RecordedStepsNotReExecuted ==
    [][\A j \in DOMAIN jobs :
          /\ Rank(jobs'[j].step) >= Rank(jobs[j].step)
          /\ Rank(jobs[j].step) > Rank("upload")
                => jobs'[j].posts = jobs[j].posts
          /\ Rank(jobs[j].step) > Rank("auth")
                => /\ jobs'[j].authInfo = jobs[j].authInfo
                   /\ calls'[JobCaller(j)] = calls[JobCaller(j)]
                   /\ last' # last => last'.caller # JobCaller(j)]_vars

\* C18 witness: run() restarted after the upload step's result was recorded
\* has passed over the recorded retrieve and Authenticate steps and stands at
\* the recorded upload step, one POST sent.
C18_Witness ==
    \E j \in DOMAIN jobs :
        /\ jobs[j].status = "running"
        /\ jobs[j].pc = "upload"
        /\ Rank(jobs[j].step) > Rank("upload")
        /\ jobs[j].posts = 1
        /\ Present(jobs[j].authInfo)

\* C19: a staged blob is deleted only by the Cleanup step of its own job, a
\* job reaches Cleanup only through a successful upload step and the whole
\* sleep (steps are taken in program order, the sleep starts at SleepTicks and
\* ends at zero), and the blob is in the store while its job is at, or has
\* ended failed in, RetrieveInfo, Authenticate or UploadToUpstream.
C19_BlobDeletedOnlyByOwnCleanup ==
    /\ [](\A j \in DOMAIN jobs :
            Rank(jobs[j].step) <= Rank("upload") => jobs[j].fileId \in blobs)
    /\ [][/\ \A b \in blobs \ blobs' :
                \E j \in DOMAIN jobs :
                    /\ jobs[j].fileId = b
                    /\ jobs[j].status = "running"
                    /\ jobs[j].step = "cleanup"
                    /\ jobs[j].sleepLeft = 0
                    /\ jobs'[j].step = "done"
                    /\ blobs' = blobs \ {b}
          /\ \A j \in DOMAIN jobs :
                /\ Rank(jobs'[j].step) \in {Rank(jobs[j].step), Rank(jobs[j].step) + 1}
                /\ jobs[j].status = "errored" => jobs'[j] = jobs[j]
                /\ (jobs[j].step = "upload" /\ jobs'[j].step = "sleep")
                      => jobs'[j].sleepLeft = SleepTicks
                /\ (jobs[j].step = "sleep" /\ jobs'[j].step = "sleep")
                      => jobs'[j].sleepLeft \in {jobs[j].sleepLeft, jobs[j].sleepLeft - 1}
                /\ (jobs[j].step = "sleep" /\ jobs'[j].step = "cleanup")
                      => jobs[j].sleepLeft = 0]_vars

\* C19 witness: a job ended failed in its upload step after a POST, its blob
\* still in the store.
C19_Witness ==
    \E j \in DOMAIN jobs :
        /\ jobs[j].status = "errored"
        /\ jobs[j].failedAt = "upload"
        /\ jobs[j].posts > 0
        /\ jobs[j].fileId \in blobs

\* C20: every blob in the store has exactly one job instance carrying its
\* document id, after any sequence of uploadFile calls.
C20_EveryBlobHasOneJob ==
    \A b \in blobs :
        Cardinality({j \in DOMAIN jobs : jobs[j].fileId = b}) = 1

\* C21: under a fair runner and clock and the bounded retries of a step,
\* every job instance eventually is complete or ended failed, and stays so.
C21_EveryJobTerminates ==
    /\ \A j \in JobIds :
          (j \in DOMAIN jobs)
            ~> (j \in DOMAIN jobs /\ jobs[j].status \in {"complete", "errored"})
    /\ [][\A j \in DOMAIN jobs :
            jobs[j].status \in {"complete", "errored"} => jobs'[j] = jobs[j]]_vars

\* C21 witness: a job ended failed in its last step, the retries of the step
\* used up.
C21_Witness ==
    \E j \in DOMAIN jobs :
        /\ jobs[j].status = "errored"
        /\ jobs[j].failedAt = "cleanup"
        /\ jobs[j].attempts = StepRetryLimit

\* C22: the access credential getAccessToken() returns was issued for the
\* refresh credential that is persisted when it returns, also after a second
\* successful register on an instance that held an unexpired access credential
\* of an earlier registration.
C22_TokenIssuedForPersistedRefresh ==
    (last.op = "getAccessToken" /\ last.phase = "return" /\ Present(last.tok))
        => last.tok.rt = storage.refresh_token

====
